---- MODULE Spec2Model ----
(***************************************************************************)
(* Model of the chat client of ragchatbot-fe: the React component App in   *)
(* its two versions, src/src/App.tsx (single-shot answers only) and        *)
(* src/unnamed/part_000 (single-shot or event-stream answers).             *)
(*                                                                         *)
(* Text is modelled by TLA+ strings, one character per UTF-16 code unit.   *)
(* A response body is a string of bytes: every ASCII byte is written as    *)
(* its character; the two bytes 0xC3 0xA9 of the UTF-8 encoding of U+00E9  *)
(* are written "^" and "~", the decoded character U+00E9 is written "@"    *)
(* and the replacement character U+FFFD is written "?".                    *)
(***************************************************************************)
EXTENDS Integers, Sequences, FiniteSets, TLC

VARIABLES
    variant,          \* which version of App runs: "stream" (part_000) or "plain" (App.tsx)
    input,            \* useState input
    messages,         \* useState messages: sequence of [id, role, content]
    isSending,        \* useState isSending (the busy flag)
    error,            \* useState error (the error banner), NULL when absent
    view,             \* useState view
    documentId,       \* useState documentId
    selectedFile,     \* useState selectedFile
    isUploading,      \* useState isUploading
    uploadError,      \* useState uploadError
    uploadedFileInfo, \* useState uploadedFileInfo (part_000 only): <<>> or <<info>>
    nextId,           \* number of ids handed out by addMessage so far
    tasks,            \* one record per accepted send(): its position and locals
    upload,           \* the uploadPdf() call in progress, if any
    returned          \* history: "send" when the last step was a send() that
                      \* returned at its guard, "" otherwise

vars == <<variant, input, messages, isSending, error, view, documentId,
          selectedFile, isUploading, uploadError, uploadedFileInfo, nextId,
          tasks, upload, returned>>

NULL == "<null>"

(***************************************************************************)
(* Bounds of the model.                                                    *)
(***************************************************************************)
MaxCalls == 2      \* accepted send() and uploadPdf() calls in one behaviour
MaxChatSends == 1  \* accepted send() calls in one behaviour of SpecChat
MaxChunk == 2      \* in SpecChat a chunk holds at most this many bytes, or all that is left

(***************************************************************************)
(* String helpers (String.prototype methods used by the code).             *)
(***************************************************************************)
CharAt(s, i) == SubSeq(s, i, i)

\* String.prototype.startsWith
StartsWith(s, p) == Len(s) >= Len(p) /\ SubSeq(s, 1, Len(p)) = p

\* String.prototype.slice(n): the string without its first n code units
Slice(s, n) == SubSeq(s, n + 1, Len(s))

Min(S) == CHOOSE x \in S : \A y \in S : x <= y
Max(S) == CHOOSE x \in S : \A y \in S : x >= y

\* String.prototype.indexOf, 1-based; 0 when sub does not occur
IndexOf(s, sub) ==
    LET at == {i \in 1..(Len(s) - Len(sub) + 1) : SubSeq(s, i, i + Len(sub) - 1) = sub}
    IN  IF at = {} THEN 0 ELSE Min(at)

\* String.prototype.includes
Includes(s, sub) == IndexOf(s, sub) # 0

WhiteSpace == {" ", "\n", "\t", "\r"}

\* String.prototype.trim: from the first to the last character that is not
\* white space
Trim(s) ==
    LET black == {i \in 1..Len(s) : CharAt(s, i) \notin WhiteSpace}
    IN  IF black = {} THEN "" ELSE SubSeq(s, Min(black), Max(black))

\* String.prototype.split(sep) for a non-empty separator: the pieces between
\* the leftmost non-overlapping occurrences of sep; never empty.
RECURSIVE Split(_, _)

\* the pieces of s when the first occurrence of sep is at i (0: none)
SplitAt(s, sep, i) ==
    IF i = 0 THEN <<s>>
    ELSE <<SubSeq(s, 1, i - 1)>> \o Split(Slice(s, i + Len(sep) - 1), sep)

\* (the string is bound to a variable, so that it is evaluated once)
Split(s, sep) == CHOOSE lines \in {SplitAt(v, sep, IndexOf(v, sep)) : v \in {s}} : TRUE

\* the concatenation of piece[lo], ..., piece[hi]
RECURSIVE Concat(_, _, _)
Concat(piece, lo, hi) ==
    IF lo > hi THEN ""
    ELSE IF lo = hi THEN piece[lo]
    ELSE LET mid == (lo + hi) \div 2
         IN  Concat(piece, lo, mid) \o Concat(piece, mid + 1, hi)

\* Decimal digits of a natural number (template-literal interpolation of a number)
Digit(d) == CharAt("0123456789", d + 1)

RECURSIVE NumText(_)
NumText(n) == IF n < 10 THEN Digit(n) ELSE NumText(n \div 10) \o Digit(n % 10)

(***************************************************************************)
(* TextDecoder (UTF-8) with {stream: true}: an incomplete multi-byte       *)
(* sequence at the end of a chunk is kept in the decoder until the next    *)
(* chunk; an ill-formed sequence decodes to U+FFFD.  `pending` is the lead *)
(* byte kept from the previous chunk, or "".                               *)
(***************************************************************************)
LeadByte == "^"
ContByte == "~"
TwoByteChar == "@"
Replacement == "?"

\* What byte i of the chunk adds to the text.  In this fragment of UTF-8 the
\* decoder holds a lead byte before byte i exactly when byte i-1 was one (for
\* i = 1: when the previous chunk left one).
DecodedAt(bytes, i, pending) ==
    LET b == CharAt(bytes, i)
        held == IF i = 1 THEN pending = LeadByte ELSE CharAt(bytes, i - 1) = LeadByte
    IN  IF held
        THEN IF b = ContByte THEN TwoByteChar
             ELSE IF b = LeadByte THEN Replacement
             ELSE Replacement \o b
        ELSE IF b = LeadByte THEN ""
             ELSE IF b = ContByte THEN Replacement
             ELSE b

\* the lead byte the decoder keeps after the chunk
PendingAfter(pending, chunk) ==
    IF Len(chunk) = 0 THEN pending
    ELSE IF CharAt(chunk, Len(chunk)) = LeadByte THEN LeadByte ELSE ""

\* Mutant of Decode: decode(value) without {stream: true}; every chunk is
\* decoded on its own and an incomplete sequence at its end is flushed.
DecodeNoStream(pending, chunk) ==
    [text |-> Concat([i \in 1..Len(chunk) |-> DecodedAt(chunk, i, "")], 1, Len(chunk))
              \o (IF PendingAfter("", chunk) = LeadByte THEN Replacement ELSE ""),
     pending |-> ""]

\* decoder.decode(value, { stream: true })
Decode(pending, chunk) ==
    [text |-> Concat([i \in 1..Len(chunk) |-> DecodedAt(chunk, i, pending)], 1, Len(chunk)),
     pending |-> PendingAfter(pending, chunk)]

\* Decoding of a whole body at once (res.text(), res.json()): a trailing
\* incomplete sequence is flushed as U+FFFD.
DecodeAll(bytes) ==
    LET d == Decode("", bytes) IN
    IF d.pending = "" THEN d.text ELSE d.text \o Replacement

(***************************************************************************)
(* JSON.parse, for the values the server sends: null, a number written    *)
(* with the digits 1 to 9, {} and an object with one string member        *)
(* written without inner white space.  Any other                          *)
(* text is a SyntaxError here; the bodies below hold no text on which this *)
(* differs from JSON.parse.  A member that is absent reads as Undefined.   *)
(***************************************************************************)
Undefined == "<undefined>"

PlainChars(s) ==
    \A i \in 1..Len(s) : CharAt(s, i) \notin {"\"", "\\", "\n", "\t", "\r"}

Digits == {"1", "2", "3", "4", "5", "6", "7", "8", "9"}

\* the member "key":"val" between the braces, with the colon found at k
ParseMember(inner, k) ==
    IF /\ k # 0
       /\ PlainChars(SubSeq(inner, 1, k - 1))
       /\ PlainChars(Slice(inner, k + 2))
    THEN [kind |-> "object", key |-> SubSeq(inner, 1, k - 1), val |-> Slice(inner, k + 2)]
    ELSE [kind |-> "throw"]

\* the text without the white space around it
ParseValue(t) ==
    IF t = "null" THEN [kind |-> "null"]
    ELSE IF t # "" /\ \A i \in 1..Len(t) : CharAt(t, i) \in Digits
         THEN [kind |-> "number"]
    ELSE IF t = "{}" THEN [kind |-> "object", key |-> Undefined, val |-> Undefined]
    ELSE IF /\ Len(t) >= 7
            /\ StartsWith(t, "{\"")
            /\ SubSeq(t, Len(t) - 1, Len(t)) = "\"}"
         THEN ParseMember(SubSeq(t, 3, Len(t) - 2),
                          IndexOf(SubSeq(t, 3, Len(t) - 2), "\":\""))
    ELSE [kind |-> "throw"]

\* (the trimmed text is bound to a variable, so that it is evaluated once)
JSONParse(text) == CHOOSE data \in {ParseValue(t) : t \in {Trim(text)}} : TRUE

\* data.<name> of a parsed object
Member(data, name) == IF data.key = name THEN data.val ELSE Undefined

\* truthiness of a member that is a string or undefined
Truthy(v) == v # Undefined /\ v # ""

(***************************************************************************)
(* The transcript.                                                         *)
(***************************************************************************)
\* Mutant of addMessage: the message is put first.
addMessageFront(msgs, id, role, content) ==
    <<[id |-> id, role |-> role, content |-> content]>> \o msgs

\* addMessage: the setMessages updater; the id is fresh (Date.now() and
\* Math.random() are modelled by a counter).
addMessage(msgs, id, role, content) ==
    Append(msgs, [id |-> id, role |-> role, content |-> content])

\* Mutant of updateMessage: an id that is absent gets a message of its own.
updateMessageUpsert(msgs, id, contentOrUpdater) ==
    IF \E j \in 1..Len(msgs) : msgs[j].id = id
    THEN [j \in 1..Len(msgs) |->
            IF msgs[j].id = id
            THEN [msgs[j] EXCEPT !.content =
                     IF contentOrUpdater.isFunction
                     THEN msgs[j].content \o contentOrUpdater.value
                     ELSE contentOrUpdater.value]
            ELSE msgs[j]]
    ELSE Append(msgs, [id |-> id, role |-> "assistant", content |-> contentOrUpdater.value])

\* Mutant of updateMessage: the updater's result is the new text alone.
updateMessageReplace(msgs, id, contentOrUpdater) ==
    [j \in 1..Len(msgs) |->
        IF msgs[j].id = id
        THEN [msgs[j] EXCEPT !.content = contentOrUpdater.value]
        ELSE msgs[j]]

\* Mutant of updateMessage: the id is not compared.
updateMessageAll(msgs, id, contentOrUpdater) ==
    [j \in 1..Len(msgs) |->
        [msgs[j] EXCEPT !.content =
            IF contentOrUpdater.isFunction
            THEN msgs[j].content \o contentOrUpdater.value
            ELSE contentOrUpdater.value]]

\* Mutant of updateMessage: the updater puts the new text first.
updateMessagePrepend(msgs, id, contentOrUpdater) ==
    [j \in 1..Len(msgs) |->
        IF msgs[j].id = id
        THEN [msgs[j] EXCEPT !.content =
                 IF contentOrUpdater.isFunction
                 THEN contentOrUpdater.value \o msgs[j].content
                 ELSE contentOrUpdater.value]
        ELSE msgs[j]]

\* updateMessage: contentOrUpdater is [isFunction, value]; the one updater the
\* code passes is prev => prev + value.
updateMessage(msgs, id, contentOrUpdater) ==
    [j \in 1..Len(msgs) |->
        IF msgs[j].id = id
        THEN [msgs[j] EXCEPT !.content =
                 IF contentOrUpdater.isFunction
                 THEN msgs[j].content \o contentOrUpdater.value
                 ELSE contentOrUpdater.value]
        ELSE msgs[j]]

Ids(msgs) == {msgs[j].id : j \in 1..Len(msgs)}

\* content of the message with this id; NULL when the id is absent
ContentOf(msgs, id) ==
    IF id \in Ids(msgs)
    THEN (CHOOSE m \in {msgs[j] : j \in 1..Len(msgs)} : m.id = id).content
    ELSE NULL

(***************************************************************************)
(* The read loop of send(): frames, and what each one does.                *)
(***************************************************************************)
Separator == "\n\n"
DataPrefix == "data: "
DoneSentinel == "[DONE]"

\* Mutant of Retained: nothing is kept for the next chunk.
RetainedNone(lines) == ""

\* lines.pop() || "": the piece after the last separator stays in the buffer
Retained(lines) == lines[Len(lines)]

\* the pieces before it are the complete frames
Frames(lines) == SubSeq(lines, 1, Len(lines) - 1)

\* Mutant of dataEffect: a payload that is no object ends the stream as an
\* error.
dataEffectStrict(data) ==
    IF data.kind # "object" THEN [op |-> "error", text |-> "Malformed frame"]
    ELSE IF Truthy(Member(data, "error"))
         THEN [op |-> "error", text |-> Member(data, "error")]
    ELSE IF Truthy(Member(data, "token"))
         THEN [op |-> "token", text |-> Member(data, "token")]
    ELSE [op |-> "skip", text |-> ""]

\* the parsed payload of a frame: `if (data.error) ... if (data.token) ...`
dataEffect(data) ==
    IF data.kind # "object" THEN [op |-> "skip", text |-> ""]
    ELSE IF Truthy(Member(data, "error"))
         THEN [op |-> "error", text |-> Member(data, "error")]
    ELSE IF Truthy(Member(data, "token"))
         THEN [op |-> "token", text |-> Member(data, "token")]
    ELSE [op |-> "skip", text |-> ""]

\* Mutant of payloadEffect: the payload is compared without trim().
payloadEffectNoTrim(jsonStr) ==
    IF jsonStr = DoneSentinel THEN [op |-> "done", text |-> ""]
    ELSE dataEffect(JSONParse(jsonStr))

\* the payload of a data frame: the sentinel, or JSON
payloadEffect(jsonStr) ==
    IF Trim(jsonStr) = DoneSentinel THEN [op |-> "done", text |-> ""]
    ELSE CHOOSE e \in {dataEffect(data) : data \in {JSONParse(jsonStr)}} : TRUE

\* Mutant of lineEffect: the space after "data:" is optional.
lineEffectLoosePrefix(line) ==
    IF ~StartsWith(line, "data:") THEN [op |-> "skip", text |-> ""]
    ELSE payloadEffect(Slice(line, 5))

\* One frame (the body of `for (const line of lines)`): what it asks for.
\*   skip: no data prefix, a payload JSON.parse rejects, null (reading
\*         data.error throws inside the try), or neither member truthy
lineEffect(line) ==
    IF ~StartsWith(line, DataPrefix) THEN [op |-> "skip", text |-> ""]
    ELSE payloadEffect(Slice(line, Len(DataPrefix)))

ErrorFormat(msg) == "Error: " \o msg

\* Mutant of forLines: the error branch does not return.
RECURSIVE forLinesNoReturn(_, _, _, _, _)
forLineNoReturn(e, lines, k, msgs, err, id) ==
    IF e.op = "done" THEN [messages |-> msgs, error |-> err, stop |-> "done"]
    ELSE IF e.op = "error"
         THEN forLinesNoReturn(lines, k + 1,
                  updateMessage(msgs, id,
                      [isFunction |-> FALSE, value |-> ErrorFormat(e.text)]),
                  e.text, id)
    ELSE IF e.op = "token"
         THEN forLinesNoReturn(lines, k + 1,
                  updateMessage(msgs, id, [isFunction |-> TRUE, value |-> e.text]),
                  err, id)
    ELSE forLinesNoReturn(lines, k + 1, msgs, err, id)

forLinesNoReturn(lines, k, msgs, err, id) ==
    IF k > Len(lines)
    THEN [messages |-> msgs, error |-> err, stop |-> IF err = NULL THEN "none" ELSE "error"]
    ELSE forLineNoReturn(lineEffect(lines[k]), lines, k, msgs, err, id)

\* The for loop over the frames of one chunk, from frame k on: the transcript
\* and banner it leaves, and whether it returned ("done", "error") or not.
RECURSIVE forLines(_, _, _, _, _)

\* frame k, whose effect is e, and the frames after it
forLine(e, lines, k, msgs, err, id) ==
    IF e.op = "done" THEN [messages |-> msgs, error |-> err, stop |-> "done"]
    ELSE IF e.op = "error"
         THEN [messages |-> updateMessage(msgs, id,
                               [isFunction |-> FALSE, value |-> ErrorFormat(e.text)]),
               error |-> e.text, stop |-> "error"]
    ELSE IF e.op = "token"
         THEN forLines(lines, k + 1,
                       updateMessage(msgs, id, [isFunction |-> TRUE, value |-> e.text]),
                       err, id)
    ELSE forLines(lines, k + 1, msgs, err, id)

forLines(lines, k, msgs, err, id) ==
    IF k > Len(lines) THEN [messages |-> msgs, error |-> err, stop |-> "none"]
    ELSE CHOOSE r \in {forLine(e, lines, k, m, err, id) :
                         e \in {lineEffect(lines[k])}, m \in {msgs}} : TRUE

\* One turn of the while loop on a chunk that read() delivered: decode,
\* append to the buffer, split, keep the last piece, interpret the others.
\* what the turn leaves: decoder, buffer (`lines.pop() || ""`) and the loop's result r
onLines(pending, lines, r) ==
    [pending |-> pending, buffer |-> Retained(lines),
     messages |-> r.messages, error |-> r.error, stop |-> r.stop]

\* the pieces of the buffer: the last is kept, the others are interpreted
onText(pending, lines, msgs, err, id) ==
    onLines(pending, lines, forLines(Frames(lines), 1, msgs, err, id))

\* `buffer += ...; buffer.split("\n\n")` with the decoded text d
onDecoded(d, buffer, msgs, err, id) ==
    CHOOSE r \in {onText(d.pending, lines, msgs, err, id) :
                     lines \in {Split(buffer \o d.text, Separator)}} : TRUE

onChunk(pending, buffer, chunk, msgs, err, id) ==
    onDecoded(Decode(pending, chunk), buffer, msgs, err, id)

(***************************************************************************)
(* The environment: what the user types and what the server answers.       *)
(***************************************************************************)
QuickPrompt == "Summarize the document in 5 bullet points."

\* what the user can type into the textarea
Inputs == {"", " ", " q "}

\* The event stream a server sends for an answer made of these tokens (each
\* given as bytes): one data frame per token, then the completion frame.
TokenFrame(token) == "data: {\"token\":\"" \o token \o "\"}\n\n"

TokenStream(tokens) ==
    Concat([j \in 1..Len(tokens) |-> TokenFrame(tokens[j])], 1, Len(tokens))
    \o "data: [DONE]\n\n"

\* event-stream bodies, as bytes
TokensThenDone == TokenStream(<<"a", "^~">>)
TokenErrorToken ==
    "data: {\"token\":\"a\"}\n\ndata: {\"error\":\"boom\"}\n\ndata: {\"token\":\"b\"}\n\n"
MixedThenPartial ==
    ": ping\n\n\n\ndata: nope\n\ndata: null\n\ndata: {}\n\ndata: {\"token\":\"b\"}\n\ndata: {\"token\":\"c\"}"
DoneThenToken == "data:  [DONE] \n\ndata: {\"token\":\"c\"}\n\n"
PartialError == "data: {\"error\":\"x\"}"
PartialDone == "data: [DONE]"

\* data frames the loop skips (not JSON, null, a number, no known member, an
\* empty token), then a token
MalformedThenToken ==
    "data: nope\n\ndata: null\n\ndata: 7\n\ndata: {\"x\":\"y\"}\n\ndata: {\"token\":\"\"}\n\n"
    \o "data: {\"token\":\"b\"}\n\n"
\* frames without the prefix "data: " (a comment, a blank frame, another
\* field, a data field without the space), then a token
NonDataThenToken ==
    ": ping\n\n\n\nevent: e\n\ndata:{\"token\":\"z\"}\n\ndata: {\"token\":\"b\"}\n\n"
DoneThenError == "data: [DONE]\n\ndata: {\"error\":\"x\"}\n\n"

StreamBodies == {TokensThenDone, TokenErrorToken, MixedThenPartial,
                 DoneThenToken, PartialError, PartialDone,
                 MalformedThenToken, NonDataThenToken, DoneThenError}

\* A response of the ask endpoint.  ctype is the content-type header (NULL:
\* absent), readable whether res.body is a stream, textFails whether
\* res.text() rejects.
Response(status, ctype, readable, body) ==
    [status |-> status, ctype |-> ctype, readable |-> readable, body |-> body,
     textFails |-> FALSE]

StreamResponses == {Response(200, "text/event-stream", TRUE, b) : b \in StreamBodies}

TokenThenDone == TokenStream(<<"a">>)
ErrorThenToken == "data: {\"error\":\"x\"}\n\ndata: {\"token\":\"b\"}\n\n"

ShortStreamResponses ==
    {Response(200, "text/event-stream", TRUE, b) :
        b \in {TokenThenDone, ErrorThenToken, PartialDone}}

OtherResponses ==
    {Response(200, "text/event-stream; charset=utf-8", FALSE, ""),
     Response(200, "application/json", TRUE, "{\"answer\":\"42\"}"),
     Response(200, NULL, TRUE, "{}"),
     Response(200, "application/json", TRUE, "oops"),
     Response(500, "text/plain", TRUE, "down"),
     [Response(404, NULL, TRUE, "gone") EXCEPT !.textFails = TRUE]}

NoResponse == Response(0, NULL, FALSE, "")

\* res.ok
Ok(res) == res.status >= 200 /\ res.status <= 299

\* res.headers.get("content-type") || ""
ContentType(res) == IF res.ctype = NULL THEN "" ELSE res.ctype

FetchFailure == "Failed to fetch"
ReadFailure == "network error"
JsonFailure == "Unexpected token"
NullFailure == "Cannot read properties of null"
NotReadable == "Response body is not readable"
Fallback == "No answer returned by server."

\* Mutant of RequestFailed: the body text is left out.
RequestFailedNoText(status, text) == "Request failed (" \o NumText(status) \o ")."

\* `Request failed (${res.status}). ${text}`.trim()
RequestFailed(status, text) ==
    Trim("Request failed (" \o NumText(status) \o "). " \o text)

\* the message of the catch block (the dash of the source is written "-")
Sorry(msg) == "Sorry - I hit an error talking to the server.\n\n" \o msg

(***************************************************************************)
(* send(): one task per accepted call.                                     *)
(*   pc: "fetch" awaiting fetch(), "text" awaiting res.text(), "json"      *)
(*       awaiting res.json(), "read" awaiting reader.read(), "done".       *)
(*   exit: how a finished task left send(): "answer", "done" ([DONE]),     *)
(*       "error" (error frame), "eof", "status", "unreadable", "thrown".   *)
(***************************************************************************)
Task(pc, exit, res, msgId, pending, buffer, pos) ==
    [pc |-> pc, exit |-> exit, res |-> res, msgId |-> msgId,
     pending |-> pending, buffer |-> buffer, pos |-> pos]

Finished(exit) == Task("done", exit, NoResponse, 0, "", "", 0)

InFlight == {i \in 1..Len(tasks) : tasks[i].pc # "done"}

\* calls of send() and uploadPdf() accepted so far
Calls == Len(tasks) + upload.started

UIUnchanged == UNCHANGED <<variant, view, documentId, selectedFile, isUploading,
                           uploadError, uploadedFileInfo, upload>>

\* Mutant of sendReturnsAtOnce: the busy flag is not looked at.
sendReturnsAtOnceBlankOnly(trimmed, busy) == trimmed = ""

\* Mutant of sendReturnsAtOnce: the input is not looked at.
sendReturnsAtOnceBusyOnly(trimmed, busy) == busy

\* the guard of send(): `if (!trimmed || isSending) return;`
sendReturnsAtOnce(trimmed, busy) == trimmed = "" \/ busy

send ==
    LET trimmed == Trim(input) IN
    IF sendReturnsAtOnce(trimmed, isSending)
    THEN /\ returned' = "send"
         /\ UNCHANGED <<input, messages, isSending, error, nextId, tasks>>
         /\ UIUnchanged
    ELSE /\ Calls < MaxCalls
         /\ error' = NULL
         /\ messages' = addMessage(messages, nextId + 1, "user", trimmed)
         /\ nextId' = nextId + 1
         /\ input' = ""
         /\ isSending' = TRUE
         /\ tasks' = Append(tasks, Task("fetch", "", NoResponse, 0, "", "", 0))
         /\ returned' = ""
         /\ UIUnchanged

\* Mutant of busyAtExit: the busy flag is not cleared after the loop.
busyAtExitNotAfterLoop(exit) == exit = "eof"

\* Mutant of busyAtExit: the return on [DONE] forgets the busy flag.
busyAtExitNotOnDone(exit) == exit = "done"

\* setIsSending(false) where send() ends: before each return of the read loop,
\* after the loop, after the single-shot answer and in the catch block
\* (part_000); in the finally block (App.tsx).
busyAtExit(exit) == FALSE

\* Mutant of catch: the error text replaces the content of the placeholder.
catchOverwrites(i, msgs, n, msg, exit) ==
    /\ error' = msg
    /\ messages' = updateMessage(msgs, tasks[i].msgId,
                                 [isFunction |-> FALSE, value |-> Sorry(msg)])
    /\ nextId' = n
    /\ isSending' = busyAtExit(exit)
    /\ tasks' = [tasks EXCEPT ![i] = Finished(exit)]
    /\ returned' = ""
    /\ UNCHANGED input
    /\ UIUnchanged

\* The catch block; in App.tsx the finally block clears the busy flag.
\* msgs and n are the transcript and id counter the try block left.
catch(i, msgs, n, msg, exit) ==
    /\ error' = msg
    /\ messages' = addMessage(msgs, n + 1, "assistant", Sorry(msg))
    /\ nextId' = n + 1
    /\ isSending' = busyAtExit(exit)
    /\ tasks' = [tasks EXCEPT ![i] = Finished(exit)]
    /\ returned' = ""
    /\ UNCHANGED input
    /\ UIUnchanged

\* fetch() rejects
fetchFails(i) ==
    /\ tasks[i].pc = "fetch"
    /\ catch(i, messages, nextId, FetchFailure, "thrown")

\* Mutant of streaming: the content type is not looked at.
streamingAlways(res) == variant = "stream"

\* Whether the response is consumed as an event stream.
streaming(res) == variant = "stream" /\ Includes(ContentType(res), "text/event-stream")

\* fetch() resolves; send() runs up to its next await
fetchResolves(i, res) ==
    /\ tasks[i].pc = "fetch"
    /\ IF ~Ok(res)
       THEN /\ tasks' = [tasks EXCEPT ![i] = Task("text", "", res, 0, "", "", 0)]
            /\ returned' = ""
            /\ UNCHANGED <<input, messages, isSending, error, nextId>>
            /\ UIUnchanged
       ELSE IF streaming(res)
       THEN LET withPlaceholder == addMessage(messages, nextId + 1, "assistant", "") IN
            IF ~res.readable
            THEN catch(i, withPlaceholder, nextId + 1, NotReadable, "unreadable")
            ELSE /\ messages' = withPlaceholder
                 /\ nextId' = nextId + 1
                 /\ tasks' = [tasks EXCEPT ![i] = Task("read", "", res, nextId + 1, "", "", 0)]
                 /\ returned' = ""
                 /\ UNCHANGED <<input, isSending, error>>
                 /\ UIUnchanged
       ELSE /\ tasks' = [tasks EXCEPT ![i] = Task("json", "", res, 0, "", "", 0)]
            /\ returned' = ""
            /\ UNCHANGED <<input, messages, isSending, error, nextId>>
            /\ UIUnchanged

\* res.text().catch(() => "") settles; the Error is thrown and caught
textSettles(i) ==
    /\ tasks[i].pc = "text"
    /\ LET res == tasks[i].res
           text == IF res.textFails THEN "" ELSE DecodeAll(res.body)
       IN  catch(i, messages, nextId, RequestFailed(res.status, text), "status")

\* Mutant of answerOrFallback: a missing answer is shown as empty text.
answerOrEmpty(answer) == IF answer = Undefined THEN "" ELSE answer

\* data.answer ?? "No answer returned by server."
answerOrFallback(answer) == IF answer = Undefined THEN Fallback ELSE answer

\* res.json() settles
jsonSettles(i) ==
    /\ tasks[i].pc = "json"
    /\ LET data == JSONParse(DecodeAll(tasks[i].res.body))
           answer == Member(data, "answer")
       IN  IF data.kind = "throw" THEN catch(i, messages, nextId, JsonFailure, "thrown")
           ELSE IF data.kind = "null" THEN catch(i, messages, nextId, NullFailure, "thrown")
           ELSE /\ messages' = addMessage(messages, nextId + 1, "assistant",
                                          answerOrFallback(answer))
                /\ nextId' = nextId + 1
                /\ isSending' = busyAtExit("answer")
                /\ tasks' = [tasks EXCEPT ![i] = Finished("answer")]
                /\ returned' = ""
                /\ UNCHANGED <<input, error>>
                /\ UIUnchanged

\* the sizes of the chunk read() can deliver when `left` bytes are to come
ChunkSizes(left) == {n \in 1..left : n <= MaxChunk \/ n = left}

\* the sizes of the chunks that end with a frame separator or with the body
FrameCuts(body, pos) ==
    {n \in 1..(Len(body) - pos) :
        \/ n = Len(body) - pos
        \/ n >= Len(Separator) /\ SubSeq(body, pos + n - Len(Separator) + 1, pos + n) = Separator}

\* reader.read() resolves with the next n bytes of the body
readChunk(i, n) ==
    /\ tasks[i].pc = "read"
    /\ LET t == tasks[i] IN
       \E r \in {onChunk(t.pending, t.buffer,
                          SubSeq(t.res.body, t.pos + 1, t.pos + n),
                          messages, error, t.msgId)} :
           /\ t.pos + n <= Len(t.res.body)
           /\ messages' = r.messages
           /\ error' = r.error
           /\ IF r.stop = "none"
              THEN /\ tasks' = [tasks EXCEPT ![i] =
                                   Task("read", "", t.res, t.msgId, r.pending, r.buffer, t.pos + n)]
                   /\ UNCHANGED isSending
              ELSE /\ tasks' = [tasks EXCEPT ![i] = Finished(r.stop)]
                   /\ isSending' = busyAtExit(r.stop)
           /\ returned' = ""
           /\ UNCHANGED <<input, nextId>>
           /\ UIUnchanged

\* Mutant of onDone: the buffer is interpreted as a last frame.
onDoneFlush(buffer, msgs, err, id) == forLines(<<buffer>>, 1, msgs, err, id)

\* `if (done) break;`: what is left in the buffer is not interpreted
onDone(buffer, msgs, err, id) == [messages |-> msgs, error |-> err, stop |-> "none"]

\* reader.read() resolves with done: the loop breaks
readDone(i) ==
    /\ tasks[i].pc = "read"
    /\ tasks[i].pos = Len(tasks[i].res.body)
    /\ \E r \in {onDone(tasks[i].buffer, messages, error, tasks[i].msgId)} :
           /\ messages' = r.messages
           /\ error' = r.error
           /\ isSending' = busyAtExit(IF r.stop = "none" THEN "eof" ELSE r.stop)
           /\ tasks' = [tasks EXCEPT ![i] =
                            Finished(IF r.stop = "none" THEN "eof" ELSE r.stop)]
    /\ returned' = ""
    /\ UNCHANGED <<input, nextId>>
    /\ UIUnchanged

\* reader.read() rejects
readFails(i) ==
    /\ tasks[i].pc = "read"
    /\ catch(i, messages, nextId, ReadFailure, "thrown")

(***************************************************************************)
(* The other handlers.                                                     *)
(***************************************************************************)
\* onChange of the textarea
setInput(text) ==
    /\ input' = text
    /\ returned' = ""
    /\ UNCHANGED <<variant, messages, isSending, error, view, documentId, selectedFile,
                   isUploading, uploadError, uploadedFileInfo, nextId, tasks, upload>>

\* a quick-prompt button (App.tsx only)
quickPrompt ==
    /\ variant = "plain"
    /\ input' = QuickPrompt
    /\ view' = "chat"
    /\ returned' = ""
    /\ UNCHANGED <<variant, messages, isSending, error, documentId, selectedFile,
                   isUploading, uploadError, uploadedFileInfo, nextId, tasks, upload>>

\* the Home button, and the buttons of App.tsx that open the chat
setView(v) ==
    /\ v = "chat" => variant = "plain"
    /\ view' = v
    /\ returned' = ""
    /\ UNCHANGED <<variant, input, messages, isSending, error, documentId, selectedFile,
                   isUploading, uploadError, uploadedFileInfo, nextId, tasks, upload>>

\* Mutant of clearChatBusy: clearChat() calls setIsSending(false).
clearChatBusyReset(busy) == FALSE

\* what clearChat() leaves in the busy flag: it does not assign it
clearChatBusy(busy) == busy

\* Mutant of clearChatMessages: the transcript is kept.
clearChatMessagesKept(msgs) == msgs

\* setMessages([]) in clearChat()
clearChatMessages(msgs) == <<>>

clearChat ==
    /\ error' = NULL
    /\ messages' = clearChatMessages(messages)
    /\ input' = ""
    /\ isSending' = clearChatBusy(isSending)
    /\ returned' = ""
    /\ UNCHANGED <<variant, view, documentId, selectedFile, isUploading, uploadError,
                   uploadedFileInfo, nextId, tasks, upload>>

\* the "Remove & Reupload" button, rendered only while uploadedFileInfo is set;
\* it calls clearChat()
removeDocument ==
    /\ variant = "stream"
    /\ uploadedFileInfo # <<>>
    /\ documentId' = "default"
    /\ uploadedFileInfo' = <<>>
    /\ selectedFile' = NULL
    /\ error' = NULL
    /\ messages' = clearChatMessages(messages)
    /\ input' = ""
    /\ isSending' = clearChatBusy(isSending)
    /\ view' = "landing"
    /\ returned' = ""
    /\ UNCHANGED <<variant, isUploading, uploadError, nextId, tasks, upload>>

\* onChange of the file input
Files == {"a.pdf"}

setSelectedFile(f) ==
    /\ selectedFile' = f
    /\ returned' = ""
    /\ UNCHANGED <<variant, input, messages, isSending, error, view, documentId,
                   isUploading, uploadError, uploadedFileInfo, nextId, tasks, upload>>

\* Responses of the upload endpoint: the status, the body text and the parsed
\* JSON body ("throw": res.json() rejects).  An absent member is Undefined;
\* pageCount is <<>> when absent.
UploadData(docId, filename, pageCount) ==
    [kind |-> "object", documentId |-> docId, filename |-> filename,
     pageCount |-> pageCount]

UploadResponse(status, text, data) == [status |-> status, text |-> text, data |-> data]

UploadResponses ==
    {UploadResponse(200, "", UploadData("doc1", "b.pdf", <<3>>)),
     UploadResponse(200, "", UploadData("doc2", Undefined, <<>>)),
     UploadResponse(200, "", UploadData(Undefined, "b.pdf", <<>>)),
     UploadResponse(200, "", [kind |-> "throw"]),
     UploadResponse(413, "too large", [kind |-> "throw"])}

\* the uploadPdf() call: pc "idle" or "fetch"; file is the selectedFile the
\* call captured; started counts the calls accepted so far
Upload(pc, file, started) == [pc |-> pc, file |-> file, started |-> started]

UploadFailure == "Failed to fetch"
NoDocumentId == "Upload succeeded but no documentId returned."

\* `Upload failed (${res.status}). ${text}`.trim()
UploadFailed(status, text) ==
    Trim("Upload failed (" \o NumText(status) \o "). " \o text)

\* the greeting appended after an upload
Uploaded(filename, pageCount) ==
    "Uploaded: " \o filename
    \o (IF variant = "stream" THEN " (" \o NumText(pageCount) \o " pages)" ELSE "")
    \o "\n\nAsk me anything about this PDF."

\* Mutant of uploadReturnsAtOnce: the uploading flag is not looked at.
uploadReturnsAtOnceNoFileOnly(file, uploading) == file = NULL

\* the guard of uploadPdf(): `if (!selectedFile || isUploading) return;`
uploadReturnsAtOnce(file, uploading) == file = NULL \/ uploading

\* uploadPdf() up to `await fetch`
uploadPdf ==
    IF uploadReturnsAtOnce(selectedFile, isUploading)
    THEN UNCHANGED vars
    ELSE /\ Calls < MaxCalls
         /\ uploadError' = NULL
         /\ isUploading' = TRUE
         /\ upload' = Upload("fetch", selectedFile, upload.started + 1)
         /\ returned' = ""
         /\ UNCHANGED <<variant, input, messages, isSending, error, view, documentId,
                        selectedFile, uploadedFileInfo, nextId, tasks>>

\* the catch and finally blocks of uploadPdf()
uploadCatch(msg) ==
    /\ uploadError' = msg
    /\ isUploading' = FALSE
    /\ upload' = Upload("idle", NULL, upload.started)
    /\ returned' = ""
    /\ UNCHANGED <<variant, input, messages, isSending, error, view, documentId,
                   selectedFile, uploadedFileInfo, nextId, tasks>>

\* fetch() rejects
uploadFails ==
    /\ upload.pc = "fetch"
    /\ uploadCatch(UploadFailure)

\* fetch() resolves and the body is read (res.text() or res.json(): the code
\* between the two awaits touches no state): a failure, or the document
\* switch, which calls clearChat() and then appends the greeting
uploadSettles(res) ==
    /\ upload.pc = "fetch"
    /\ LET data == res.data IN
       IF ~(res.status >= 200 /\ res.status <= 299)
       THEN uploadCatch(UploadFailed(res.status, res.text))
       ELSE IF data.kind = "throw" THEN uploadCatch(JsonFailure)
       ELSE IF data.documentId = Undefined THEN uploadCatch(NoDocumentId)
       ELSE LET filename == IF data.filename = Undefined THEN upload.file ELSE data.filename
                pageCount == IF data.pageCount = <<>> THEN 0 ELSE data.pageCount[1]
            IN  /\ documentId' = data.documentId
                /\ IF variant = "stream"
                   THEN /\ uploadedFileInfo' = <<[filename |-> filename, pageCount |-> pageCount]>>
                        /\ selectedFile' = NULL
                   ELSE UNCHANGED <<uploadedFileInfo, selectedFile>>
                /\ view' = "chat"
                /\ error' = NULL
                /\ input' = ""
                /\ isSending' = clearChatBusy(isSending)
                /\ messages' = addMessage(clearChatMessages(messages), nextId + 1, "assistant",
                                   Uploaded(filename, pageCount))
                /\ nextId' = nextId + 1
                /\ isUploading' = FALSE
                /\ upload' = Upload("idle", NULL, upload.started)
                /\ returned' = ""
                /\ UNCHANGED <<variant, uploadError, tasks>>

(***************************************************************************)
(* The state machine.                                                      *)
(***************************************************************************)
Init ==
    /\ variant \in {"stream", "plain"}
    /\ input = ""
    /\ messages = <<>>
    /\ isSending = FALSE
    /\ error = NULL
    /\ view = "landing"
    /\ documentId = (IF variant = "stream" THEN "default" ELSE NULL)
    /\ selectedFile = NULL
    /\ isUploading = FALSE
    /\ uploadError = NULL
    /\ uploadedFileInfo = <<>>
    /\ nextId = 0
    /\ tasks = <<>>
    /\ upload = Upload("idle", NULL, 0)
    /\ returned = ""

\* The whole application.  The server answers with a single-shot response or
\* one of the short streams, cut after a frame separator.
Next ==
    \/ \E text \in Inputs : setInput(text)
    \/ quickPrompt
    \/ \E v \in {"landing", "chat"} : setView(v)
    \/ send
    \/ \E i \in 1..Len(tasks) : fetchFails(i)
    \/ \E i \in 1..Len(tasks), res \in ShortStreamResponses \cup OtherResponses :
          fetchResolves(i, res)
    \/ \E i \in 1..Len(tasks) : textSettles(i)
    \/ \E i \in 1..Len(tasks) : jsonSettles(i)
    \/ \E i \in 1..Len(tasks) : \E n \in FrameCuts(tasks[i].res.body, tasks[i].pos) :
          readChunk(i, n)
    \/ \E i \in 1..Len(tasks) : readDone(i)
    \/ \E i \in 1..Len(tasks) : readFails(i)
    \/ clearChat
    \/ removeDocument
    \/ \E f \in Files \cup {NULL} : setSelectedFile(f)
    \/ uploadPdf
    \/ uploadFails
    \/ \E res \in UploadResponses : uploadSettles(res)

Spec == Init /\ [][Next]_vars

\* The chat alone: the user types, sends and clears; the server answers with
\* any response, a stream being cut at any byte.
NextChat ==
    \/ \E text \in Inputs : setInput(text)
    \/ send /\ Len(tasks') <= MaxChatSends
    \/ \E i \in 1..Len(tasks) : fetchFails(i)
    \/ \E i \in 1..Len(tasks), res \in StreamResponses \cup OtherResponses :
          fetchResolves(i, res)
    \/ \E i \in 1..Len(tasks) : textSettles(i)
    \/ \E i \in 1..Len(tasks) : jsonSettles(i)
    \/ \E i \in 1..Len(tasks) :
          \E n \in ChunkSizes(Len(tasks[i].res.body) - tasks[i].pos) : readChunk(i, n)
    \/ \E i \in 1..Len(tasks) : readDone(i)
    \/ \E i \in 1..Len(tasks) : readFails(i)
    \/ clearChat

SpecChat == Init /\ [][NextChat]_vars

\* a step of a read loop: read() resolves, with a chunk or with done
ReadStep ==
    \E i \in 1..Len(tasks) :
        \/ \E n \in FrameCuts(tasks[i].res.body, tasks[i].pos) : readChunk(i, n)
        \/ readDone(i)

\* The chat with the short streams, cut after a frame separator; at most
\* MaxCalls sends are accepted.
NextDelivers ==
    \/ \E text \in Inputs : setInput(text)
    \/ send /\ Len(tasks') <= MaxCalls
    \/ \E i \in 1..Len(tasks) : fetchFails(i)
    \/ \E i \in 1..Len(tasks), res \in ShortStreamResponses \cup OtherResponses :
          fetchResolves(i, res)
    \/ \E i \in 1..Len(tasks) : textSettles(i)
    \/ \E i \in 1..Len(tasks) : jsonSettles(i)
    \/ ReadStep
    \/ \E i \in 1..Len(tasks) : readFails(i)
    \/ clearChat

\* The byte source delivers: a pending read() resolves in the end.
SpecChatDelivers == Init /\ [][NextDelivers]_vars /\ WF_vars(ReadStep)

(***************************************************************************)
(* Properties.                                                             *)
(***************************************************************************)
\* the last message of the transcript has this role and content
LastIs(role, content) ==
    /\ Len(messages) > 0
    /\ messages[Len(messages)].role = role
    /\ messages[Len(messages)].content = content

\* The content a placeholder gets when read() delivers the whole body as one
\* chunk and then end-of-data.
WholeContent(body) ==
    LET placeholder == <<[id |-> 0, role |-> "assistant", content |-> ""]>>
        r == onChunk("", "", body, placeholder, NULL, 0)
    IN  IF r.stop = "none"
        THEN onDone(r.buffer, r.messages, r.error, 0).messages[1].content
        ELSE r.messages[1].content

\* C1: however the body of an event stream is cut into chunks, the content
\* the placeholder has when the read loop ends (by [DONE], by an error frame
\* or by end-of-data) is the content it has when the whole body arrives as
\* one chunk.
C1_SplitInvariance ==
    [][\A i \in 1..Len(tasks) :
          ( /\ tasks[i].pc = "read"
            /\ tasks'[i].pc = "done"
            /\ tasks'[i].exit \in {"done", "error", "eof"}
            /\ tasks[i].msgId \in Ids(messages') )
          => ContentOf(messages', tasks[i].msgId) = WholeContent(tasks[i].res.body)]_vars

\* the stream was cut inside the two-byte character, after the first token
\* was applied
C1_Witness ==
    \E i \in 1..Len(tasks) :
        /\ tasks[i].pc = "read"
        /\ tasks[i].res.body = TokensThenDone
        /\ tasks[i].pending = LeadByte
        /\ ContentOf(messages, tasks[i].msgId) = "a"

\* C2: when end-of-data arrives while the buffer holds text, that text is not
\* interpreted: the step changes neither the transcript nor the banner, it
\* is the normal end of the loop (not a [DONE] or error return) and it
\* clears the busy flag.
C2_PartialFrameDropped ==
    [][\A i \in 1..Len(tasks) :
          ( /\ tasks[i].pc = "read"
            /\ tasks[i].pos = Len(tasks[i].res.body)
            /\ tasks[i].buffer # ""
            /\ tasks'[i].pc = "done"
            /\ tasks'[i].exit # "thrown" )
          => /\ tasks'[i].exit = "eof"
             /\ messages' = messages
             /\ error' = error
             /\ isSending' = FALSE]_vars

\* the stream that ends inside the frame of token "c" has ended: the
\* placeholder holds "b" only
C2_Witness ==
    /\ \E i \in 1..Len(tasks) : tasks[i].pc = "done" /\ tasks[i].exit = "eof"
    /\ LastIs("assistant", "b")
    /\ error = NULL

\* the answers of the token streams: the tokens as bytes, and their text
Answers == {[tokens |-> <<"a", "^~">>, text |-> "a@"],
            [tokens |-> <<"a">>, text |-> "a"]}

\* C3: a stream of token frames followed by `data: [DONE]` ends by the [DONE]
\* return, with the placeholder holding the tokens' text in arrival order, no
\* error banner and no message appended.
C3_TokensInOrder ==
    [][\A i \in 1..Len(tasks) : \A a \in Answers :
          ( /\ tasks[i].pc = "read"
            /\ tasks[i].res.body = TokenStream(a.tokens)
            /\ tasks'[i].pc = "done"
            /\ tasks'[i].exit # "thrown" )
          => /\ tasks'[i].exit = "done"
             /\ error' = NULL
             /\ Len(messages') = Len(messages)
             /\ tasks[i].msgId \in Ids(messages')
                   => ContentOf(messages', tasks[i].msgId) = a.text]_vars

C3_Witness ==
    /\ \E i \in 1..Len(tasks) : tasks[i].pc = "done" /\ tasks[i].exit = "done"
    /\ LastIs("assistant", "a@")
    /\ Len(messages) = 2
    /\ error = NULL

\* streams with an error frame, and the message it carries
ErrorStreams == {[body |-> TokenErrorToken, message |-> "boom"],
                 [body |-> ErrorThenToken, message |-> "x"]}

\* C4: the step that interprets an error frame replaces the content of the
\* placeholder by "Error: " and the message, whatever it held, changes no
\* other message, sets the banner to the message and clears the busy flag;
\* the frames after it in the chunk change nothing, and the task is over.
C4_ErrorFrame ==
    [][\A i \in 1..Len(tasks) : \A e \in ErrorStreams :
          ( /\ tasks[i].pc = "read"
            /\ tasks[i].res.body = e.body
            /\ tasks'[i].pc = "done"
            /\ tasks'[i].exit # "thrown" )
          => /\ tasks'[i].exit = "error"
             /\ error' = e.message
             /\ isSending' = FALSE
             /\ Len(messages') = Len(messages)
             /\ \A j \in 1..Len(messages) :
                   messages'[j] =
                      IF messages[j].id = tasks[i].msgId
                      THEN [messages[j] EXCEPT !.content = "Error: " \o e.message]
                      ELSE messages[j]]_vars

C4_Witness ==
    /\ \E i \in 1..Len(tasks) : tasks[i].pc = "done" /\ tasks[i].exit = "error"
    /\ LastIs("assistant", "Error: boom")
    /\ error = "boom"
    /\ ~isSending

\* C5: when fetch() resolves with a success whose content type names no event
\* stream, send() goes on to res.json() without touching the transcript (no
\* placeholder, no read loop); when the body {"answer":"42"} is parsed, the
\* one change is an assistant message "42" appended.
C5_SingleShot ==
    [][\A i \in 1..Len(tasks) :
          /\ ( /\ tasks[i].pc = "fetch"
               /\ tasks'[i].pc # "fetch"
               /\ Ok(tasks'[i].res)
               /\ ~Includes(ContentType(tasks'[i].res), "text/event-stream") )
             => tasks'[i].pc = "json" /\ messages' = messages
          /\ ( /\ tasks[i].pc = "json"
               /\ tasks[i].res.body = "{\"answer\":\"42\"}"
               /\ tasks'[i].pc = "done" )
             => /\ tasks'[i].exit = "answer"
                /\ messages' = Append(messages,
                      [id |-> nextId + 1, role |-> "assistant", content |-> "42"])]_vars

C5_Witness ==
    /\ \E i \in 1..Len(tasks) : tasks[i].pc = "done" /\ tasks[i].exit = "answer"
    /\ LastIs("assistant", "42")
    /\ Len(messages) = 2
    /\ messages[1].role = "user"

\* C6: send() called while the busy flag is set, with text in the input,
\* returns at once: the transcript, the input, the banner, the busy flag and
\* the requests issued so far are what they were.
C6_SendWhileBusy ==
    [][(isSending /\ Trim(input) # "" /\ send)
          => UNCHANGED <<messages, input, error, isSending, nextId, tasks>>]_vars

\* send() has just returned at its guard with a request in flight and text
\* in the input
C6_Witness ==
    /\ returned = "send"
    /\ isSending
    /\ Trim(input) # ""
    /\ InFlight # {}
    /\ Len(tasks) = 1

C8_BusyClearedAtExit ==
    [][\A i \in 1..Len(tasks) :
          (tasks[i].pc # "done" /\ tasks'[i].pc = "done") => isSending' = FALSE]_vars

\* a send has ended by each of two different exits, the busy flag is false
C8_Witness ==
    /\ \E i \in 1..Len(tasks) :
          tasks[i].pc = "done" /\ tasks[i].exit \in {"done", "eof", "unreadable"}
    /\ InFlight = {}
    /\ ~isSending

\* C9: at most one send() is between its fetch() and its exit, whatever the
\* interleaving of sends, clears, uploads and responses.
C9_OneInFlight == Cardinality(InFlight) <= 1

\* a second request was issued, after the first one ended
C9_Witness ==
    /\ Len(tasks) = 2
    /\ tasks[1].pc = "done"
    /\ tasks[2].pc # "done"
    /\ isSending

\* the failure message of the responses with a non-success status
StatusFailures == {[status |-> 500, message |-> "Request failed (500). down"],
                   [status |-> 404, message |-> "Request failed (404)."]}

\* C10: a response with a non-success status is only read as text (no
\* placeholder, no read loop, no parse), and the step that ends the send
\* appends one assistant message that carries the failure message (status
\* code and body text), sets the banner to that message and issues no
\* request.
C10_RequestFailed ==
    [][\A i \in 1..Len(tasks) :
          /\ ( /\ tasks[i].pc = "fetch"
               /\ tasks'[i].pc \notin {"fetch", "done"}
               /\ ~Ok(tasks'[i].res) )
             => /\ tasks'[i].pc = "text"
                /\ messages' = messages
                /\ Len(tasks') = Len(tasks)
          /\ (tasks[i].pc = "text" /\ tasks'[i].pc = "done")
             => \E f \in StatusFailures :
                   /\ f.status = tasks[i].res.status
                   /\ tasks'[i].exit = "status"
                   /\ error' = f.message
                   /\ messages' = Append(messages,
                         [id |-> nextId + 1, role |-> "assistant",
                          content |-> "Sorry - I hit an error talking to the server.\n\n"
                                      \o f.message])
                   /\ Len(tasks') = Len(tasks)]_vars

C10_Witness ==
    /\ \E i \in 1..Len(tasks) : tasks[i].pc = "done" /\ tasks[i].exit = "status"
    /\ error = "Request failed (500). down"
    /\ Len(messages) = 2
    /\ messages[1].role = "user"
    /\ messages[2].role = "assistant"
    /\ Includes(messages[2].content, "500")
    /\ Includes(messages[2].content, "down")

\* C11 as the specification states it: when the response declares an event
\* stream and has no readable body, the step that ends the send appends one
\* assistant error message and nothing else, sets the banner and clears the
\* busy flag, as a request failure does.
C11_UnreadableAsRequestFailed ==
    [][\A i \in 1..Len(tasks) :
          ( /\ tasks[i].pc = "fetch"
            /\ tasks'[i].pc = "done"
            /\ tasks'[i].exit = "unreadable" )
          => /\ Len(messages') = Len(messages) + 1
             /\ SubSeq(messages', 1, Len(messages)) = messages
             /\ messages'[Len(messages')].role = "assistant"
             /\ messages'[Len(messages')].content = Sorry(NotReadable)
             /\ error' = NotReadable
             /\ isSending' = FALSE]_vars

\* C12: while the frames that have arrived from the stream of skipped data
\* frames (not JSON, null, a number, an object without error or token, an
\* empty token) are all of that kind, no step of the read loop changes the
\* transcript, the banner or the busy flag, and the loop goes on; the token
\* frame after them is applied.
C12_MalformedFramesSkipped ==
    [][\A i \in 1..Len(tasks) :
          ( /\ tasks[i].pc = "read"
            /\ tasks[i].res.body = MalformedThenToken
            /\ tasks[i].pos < Len(MalformedThenToken)
            /\ tasks'[i] # tasks[i]
            /\ tasks'[i].exit # "thrown" )
          => /\ tasks'[i].pc = "read"
             /\ error' = error
             /\ isSending' = isSending
             /\ IF tasks'[i].pos < Len(MalformedThenToken)
                THEN messages' = messages
                ELSE /\ Len(messages') = Len(messages)
                     /\ tasks[i].msgId \in Ids(messages)
                           => ContentOf(messages', tasks[i].msgId) = "b"]_vars

\* the five skipped frames have been interpreted, the token frame has not
C12_Witness ==
    \E i \in 1..Len(tasks) :
        /\ tasks[i].pc = "read"
        /\ tasks[i].res.body = MalformedThenToken
        /\ tasks[i].pos = Len(MalformedThenToken) - Len(TokenFrame("b"))
        /\ tasks[i].buffer = ""
        /\ ContentOf(messages, tasks[i].msgId) = ""
        /\ error = NULL
        /\ isSending

\* C13: a step changes the content of a message that stays in the transcript
\* only if that message is the placeholder of a send that is in its read
\* loop; its id and role stay, and every other message is what it was.
C13_OnlyPlaceholderChanges ==
    [][\A j \in 1..Len(messages) : \A k \in 1..Len(messages') :
          (messages'[k].id = messages[j].id /\ messages'[k] # messages[j])
          => /\ messages'[k].role = messages[j].role
             /\ \E i \in InFlight :
                   /\ tasks[i].pc = "read"
                   /\ tasks[i].msgId = messages[j].id
                   /\ messages[j].role = "assistant"]_vars

\* the second stream has written into its placeholder; the answer of the
\* first one is what it was
C13_Witness ==
    /\ Len(tasks) = 2
    /\ tasks[2].pc = "read"
    /\ Len(messages) = 4
    /\ messages[2].content = "Error: x"
    /\ messages[4].content = "a"
    /\ messages[4].id = tasks[2].msgId

\* the ids of the transcript, in order
IdSeq(msgs) == [j \in 1..Len(msgs) |-> msgs[j].id]

\* C14: a step of send() (the accepted call or one of its continuations)
\* keeps the ids of the transcript, in their order, and puts the ids it adds
\* after them: one fresh id for each call of addMessage, that is at most one,
\* and two in the step that creates the placeholder and then finds the body
\* unreadable.
C14_IdsOnlyAppended ==
    [][tasks' # tasks
          => /\ Len(messages') >= Len(messages)
             /\ SubSeq(IdSeq(messages'), 1, Len(messages)) = IdSeq(messages)
             /\ \A k \in (Len(messages) + 1)..Len(messages') :
                   messages'[k].id \notin Ids(messages)
             /\ Len(messages') - Len(messages) <=
                   (IF \E i \in 1..Len(tasks) :
                          tasks[i].pc # "done" /\ tasks'[i].exit = "unreadable"
                    THEN 2 ELSE 1)]_vars

C14_Witness ==
    /\ \E i \in 1..Len(tasks) : tasks[i].pc = "done" /\ tasks[i].exit = "unreadable"
    /\ IdSeq(messages) = <<1, 2, 3>>
    /\ messages[1].role = "user"

\* C15: in every state in which a send() has not reached its exit, the busy
\* flag is true; so no clear, upload, document removal or view switch has
\* set it to false while the send was in flight.
C15_BusyWhileInFlight == InFlight # {} => isSending

\* an upload has replaced the transcript by its greeting while a send is in
\* flight
C15_Witness ==
    /\ InFlight # {}
    /\ isSending
    /\ upload.started = 1
    /\ upload.pc = "idle"
    /\ Len(messages) = 1
    /\ messages[1].role = "assistant"

\* streams that open with a completion frame
DoneFirst == {DoneThenToken, DoneThenError}

\* C16: in a stream whose first frame is a data frame with the trimmed
\* payload [DONE], no step of the read loop changes the transcript or the
\* banner: the loop is left by the [DONE] return, with the busy flag cleared,
\* in the step in which that frame is complete, and the token or error frame
\* behind it, in the same chunk or a later one, is never interpreted.
C16_DoneIsFinal ==
    [][\A i \in 1..Len(tasks) :
          ( /\ tasks[i].pc = "read"
            /\ tasks[i].res.body \in DoneFirst
            /\ tasks'[i] # tasks[i]
            /\ tasks'[i].exit # "thrown" )
          => /\ messages' = messages
             /\ error' = error
             /\ IF /\ tasks'[i].pc = "read"
                   /\ tasks'[i].pos < IndexOf(tasks[i].res.body, Separator) + 1
                THEN isSending' = isSending
                ELSE /\ tasks'[i].pc = "done"
                     /\ tasks'[i].exit = "done"
                     /\ isSending' = FALSE]_vars

\* a stream has ended by [DONE] with nothing written into the placeholder
C16_Witness ==
    /\ \E i \in 1..Len(tasks) : tasks[i].pc = "done" /\ tasks[i].exit = "done"
    /\ LastIs("assistant", "")
    /\ error = NULL
    /\ ~isSending

\* C17: while the frames that have arrived are frames without the prefix
\* "data: " (a comment, a blank frame, another field, "data:" without the
\* space), no step of the read loop changes the transcript, the banner or
\* the busy flag, and the loop goes on; the token frame after them is
\* applied.
C17_NonDataFramesIgnored ==
    [][\A i \in 1..Len(tasks) :
          ( /\ tasks[i].pc = "read"
            /\ tasks[i].res.body = NonDataThenToken
            /\ tasks[i].pos < Len(NonDataThenToken)
            /\ tasks'[i] # tasks[i]
            /\ tasks'[i].exit # "thrown" )
          => /\ tasks'[i].pc = "read"
             /\ error' = error
             /\ isSending' = isSending
             /\ IF tasks'[i].pos < Len(NonDataThenToken)
                THEN messages' = messages
                ELSE /\ Len(messages') = Len(messages)
                     /\ tasks[i].msgId \in Ids(messages)
                           => ContentOf(messages', tasks[i].msgId) = "b"]_vars

\* the four frames without the prefix have been interpreted, the token frame
\* has not
C17_Witness ==
    \E i \in 1..Len(tasks) :
        /\ tasks[i].pc = "read"
        /\ tasks[i].res.body = NonDataThenToken
        /\ tasks[i].pos = Len(NonDataThenToken) - Len(TokenFrame("b"))
        /\ tasks[i].buffer = ""
        /\ ContentOf(messages, tasks[i].msgId) = ""
        /\ error = NULL
        /\ isSending

\* C18: a step of a read loop whose placeholder is not in the transcript
\* (clear or an upload removed it) leaves the transcript as it is, whatever
\* token or error frames it interprets.
C18_AbsentIdNoOp ==
    [][\A i \in 1..Len(tasks) :
          ( /\ tasks[i].pc = "read"
            /\ tasks[i].msgId \notin Ids(messages)
            /\ tasks'[i] # tasks[i]
            /\ tasks'[i].exit # "thrown" )
          => messages' = messages]_vars

\* the error frame of a stream was interpreted after clear had emptied the
\* transcript: the banner is set, the transcript is empty
C18_Witness ==
    /\ \E i \in 1..Len(tasks) : tasks[i].pc = "done" /\ tasks[i].exit = "error"
    /\ messages = <<>>
    /\ error = "x"

\* C19: the placeholder is created with empty content, and in a stream
\* without error frame every step of the read loop that keeps the
\* placeholder in the transcript leaves it a content that starts with the
\* content it had.
C19_ContentOnlyGrows ==
    [][\A i \in 1..Len(tasks) :
          /\ (tasks[i].pc = "fetch" /\ tasks'[i].pc = "read")
             => ContentOf(messages', tasks'[i].msgId) = ""
          /\ ( /\ tasks[i].pc = "read"
               /\ ~Includes(tasks[i].res.body, "\"error\"")
               /\ tasks[i].msgId \in Ids(messages)
               /\ tasks[i].msgId \in Ids(messages') )
             => StartsWith(ContentOf(messages', tasks[i].msgId),
                           ContentOf(messages, tasks[i].msgId))]_vars

\* both tokens have been appended, the completion frame has not arrived
C19_Witness ==
    \E i \in 1..Len(tasks) :
        /\ tasks[i].pc = "read"
        /\ tasks[i].res.body = TokensThenDone
        /\ ContentOf(messages, tasks[i].msgId) = "a@"

\* C20: when the body of a single-shot success is {} (an object without
\* answer), the step that ends the send appends one assistant message with
\* the text "No answer returned by server." and nothing else; the banner
\* stays absent and the busy flag is cleared.
C20_MissingAnswer ==
    [][\A i \in 1..Len(tasks) :
          ( /\ tasks[i].pc = "json"
            /\ tasks[i].res.body = "{}"
            /\ tasks'[i].pc = "done" )
          => /\ tasks'[i].exit = "answer"
             /\ messages' = Append(messages,
                   [id |-> nextId + 1, role |-> "assistant",
                    content |-> "No answer returned by server."])
             /\ error' = NULL
             /\ isSending' = FALSE]_vars

C20_Witness ==
    /\ \E i \in 1..Len(tasks) : tasks[i].pc = "done" /\ tasks[i].exit = "answer"
    /\ LastIs("assistant", "No answer returned by server.")
    /\ Len(messages) = 2
    /\ error = NULL

\* C21: as long as a read loop has not been left, the busy flag is true and
\* no request is issued (a send is rejected), so it is for ever when the
\* stream never ends; and when the byte source delivers what it has (chunks,
\* then end-of-data), a send that is in its read loop leads to the busy flag
\* being false.
C21_BusyUntilStreamEnds ==
    /\ [][(\E i \in 1..Len(tasks) : tasks[i].pc = "read" /\ tasks'[i].pc = "read")
             => (isSending /\ isSending' /\ Len(tasks') = Len(tasks))]_vars
    /\ (\E i \in 1..Len(tasks) : tasks[i].pc = "read") ~> ~isSending

\* a send was rejected while the stream of the previous one is being read
C21_Witness ==
    /\ \E i \in 1..Len(tasks) : tasks[i].pc = "read" /\ tasks[i].pos > 0
    /\ returned = "send"
    /\ Trim(input) # ""
    /\ isSending

\* C22: a document switch resets the transcript.  The step in which an upload
\* succeeds leaves exactly one message, the assistant greeting, which is none
\* of the messages present before; the step removeDocument leaves the
\* transcript empty and the document reference "default".
C22_DocumentSwitchResets ==
    [][/\ (upload.pc = "fetch" /\ upload'.pc = "idle" /\ uploadError' = NULL)
          => /\ Len(messages') = 1
             /\ messages'[1].role = "assistant"
             /\ StartsWith(messages'[1].content, "Uploaded: ")
             /\ messages'[1].id \notin Ids(messages)
             /\ \A j \in 1..Len(messages) : messages[j] # messages'[1]
       /\ (uploadedFileInfo # <<>> /\ uploadedFileInfo' = <<>>)
          => /\ messages' = <<>>
             /\ documentId' = "default"]_vars

\* an upload has succeeded after a send had put messages into the transcript
C22_Witness ==
    /\ Len(messages) = 1
    /\ messages[1].role = "assistant"
    /\ StartsWith(messages[1].content, "Uploaded: ")
    /\ messages[1].id > 1
    /\ Len(tasks) > 0
    /\ documentId = "doc1"
    /\ upload.pc = "idle"

\* C23: decoder conservation.  While a send is in its read loop, with the
\* text of the chunks received so far cut at the separators: the last piece
\* is the retained buffer, the pieces before it (the frames emitted so far),
\* each followed by the separator, concatenated with the retained buffer are
\* that text, and the retained buffer contains no separator.
C23_DecoderConservation ==
    \A i \in 1..Len(tasks) :
        tasks[i].pc = "read" =>
            LET text == Decode("", SubSeq(tasks[i].res.body, 1, tasks[i].pos)).text
                pieces == Split(text, Separator)
                emitted == [k \in 1..(Len(pieces) - 1) |-> pieces[k] \o Separator]
            IN  /\ pieces[Len(pieces)] = tasks[i].buffer
                /\ Concat(emitted, 1, Len(emitted)) \o tasks[i].buffer = text
                /\ ~Includes(tasks[i].buffer, Separator)

\* a frame has been emitted and a partial frame is retained
C23_Witness ==
    \E i \in 1..Len(tasks) :
        /\ tasks[i].pc = "read"
        /\ tasks[i].res.body = TokensThenDone
        /\ tasks[i].buffer = "data: {\"token\":\"@"
        /\ ContentOf(messages, tasks[i].msgId) = "a"

\* C24: send() with an input that is empty or white space only is a no-op.
\* From a state with such an input no step issues a request or appends a user
\* message, and the step send() leaves the transcript, the busy flag, the
\* error banner and the input unchanged.
C24_BlankSendNoOp ==
    [][Trim(input) = "" =>
          /\ Len(tasks') = Len(tasks)
          /\ \A k \in 1..Len(messages') :
                 messages'[k].role = "user" => messages'[k].id <= nextId
          /\ returned' = "send" => UNCHANGED <<messages, isSending, error, input>>]_vars

\* send() has returned at its guard on a white-space input alone: no send
\* is in flight
C24_Witness ==
    /\ returned = "send"
    /\ input = " "
    /\ ~isSending
    /\ Len(tasks) = 0
    /\ messages = <<>>

\* C25: when read() rejects in the read loop, the transcript is left as it
\* was (the placeholder keeps the content accumulated so far) with one
\* assistant message, the error message, appended after it; the error banner
\* is set and the busy flag is cleared.
C25_ReadFailureKeepsTokens ==
    [][\A i \in 1..Len(tasks) :
          (tasks[i].pc = "read" /\ tasks'[i].pc = "done" /\ tasks'[i].exit = "thrown")
          => /\ messages' = Append(messages, [id |-> nextId + 1, role |-> "assistant",
                                              content |-> Sorry(ReadFailure)])
             /\ ContentOf(messages', tasks[i].msgId) = ContentOf(messages, tasks[i].msgId)
             /\ error' = ReadFailure
             /\ ~isSending']_vars

\* read() has rejected after the token "a" was applied
C25_Witness ==
    /\ \E i \in 1..Len(tasks) : tasks[i].pc = "done" /\ tasks[i].exit = "thrown"
    /\ Len(messages) = 3
    /\ messages[2].role = "assistant"
    /\ messages[2].content = "a"
    /\ messages[3].role = "assistant"
    /\ messages[3].content = Sorry(ReadFailure)
    /\ error = ReadFailure
    /\ ~isSending

\* C26 (as stated; the code violates it): every assistant message that a send
\* produced, that is every assistant message but the greeting of an upload,
\* comes after the user message of its send: the user message with the
\* greatest id below its own (ids are handed out in order and one send is in
\* flight at a time).
C26_AnswerAfterItsQuestion ==
    \A k \in 1..Len(messages) :
        (messages[k].role = "assistant" /\ ~StartsWith(messages[k].content, "Uploaded: "))
        => \E j \in 1..(k - 1) :
               /\ messages[j].role = "user"
               /\ messages[j].id < messages[k].id
               /\ \A u \in 1..Len(messages) :
                      (messages[u].role = "user" /\ messages[u].id < messages[k].id)
                      => messages[u].id <= messages[j].id

\* C27: a failed upload (a status that is no success, a rejected fetch or
\* body, a response without documentId) leaves the document reference, the
\* transcript and the view unchanged, sets the upload error and clears the
\* uploading flag; with no file selected or with the uploading flag set, no
\* upload is started (no request, the flag and the upload error are not reset).
C27_FailedUploadKeepsDocument ==
    [][/\ (upload.pc = "fetch" /\ upload'.pc = "idle" /\ uploadError' # NULL)
          => /\ UNCHANGED <<documentId, messages, view>>
             /\ uploadError' \in {UploadFailure, JsonFailure, NoDocumentId,
                                  "Upload failed (413). too large"}
             /\ ~isUploading'
       /\ (selectedFile = NULL \/ isUploading)
          => /\ upload'.started = upload.started
             /\ ~isUploading => ~isUploading'
             /\ upload.pc = "fetch" => upload'.pc = "idle" \/ upload' = upload]_vars

\* an upload has failed on its status after an earlier upload had switched
\* the document
C27_Witness ==
    /\ uploadError = "Upload failed (413). too large"
    /\ ~isUploading
    /\ upload.pc = "idle"
    /\ upload.started = 2
    /\ documentId = "doc1"
    /\ view = "chat"
    /\ Len(messages) = 1

====
